---- MODULE Spec2Model ----
(***************************************************************************)
(* The grading controller of src/iot/esp32_iot.ino as a state machine.     *)
(*                                                                         *)
(* The sketch is one thread: setup() once, then loop() for ever.  pc is    *)
(* the line the thread is at; a blocking wait is the guard of the step     *)
(* that follows it.  The environment (WiFi link, broker session, messages  *)
(* sent by the Python classifier, the load cell) moves between any two     *)
(* steps of the sketch.  Weights are whole grams.                          *)
(*                                                                         *)
(* History variables: cyc is what the current call of loop() has done so   *)
(* far, cleared when loopTask calls loop() again (cyc.acts is the actuator *)
(* commands it has issued; cyc.late says whether a valid override message  *)
(* has arrived during a stability loop or an actuation sequence since      *)
(* gradePython was last tested, and is kept across the call); prev is how  *)
(* the call before it ended; run follows the stream of samples the load    *)
(* cell has delivered (only in SpecStab, which starts with run.on).        *)
(***************************************************************************)
EXTENDS Integers, Sequences, FiniteSets, TLC

VARIABLES pc, wifi, connected, subs, inbox, gradePython,
          weight, w, i, stabil, grade, execGrade, caller,
          servoPendorong, servoB, servoC, motor, delivered, cyc, prev, run

env == <<wifi, connected, subs, inbox, delivered>>

locals == <<weight, w, i, stabil, grade>>

call == <<execGrade, caller>>

actuators == <<servoPendorong, servoB, servoC, motor>>

hist == <<prev, run>>

vars == <<pc, wifi, connected, subs, inbox, gradePython,
          weight, w, i, stabil, grade, execGrade, caller,
          servoPendorong, servoB, servoC, motor, delivered, cyc, prev, run>>

(***************************************************************************)
(* Bounds of the model.                                                    *)
(***************************************************************************)
\* messages the broker connection buffers before client.loop() reads them
MaxInbox == 1

\* messages one call of client.loop() hands to the callback (delivered counts
\* them while the call lasts)
MaxDeliver == 2

(***************************************************************************)
(* Values of the sketch.                                                   *)
(***************************************************************************)
\* char gradePython = 0
NUL == "NUL"

Grades == {"A", "B", "C"}

GradeTopic == "iot/python/grade"

CommandTopic == "iot/python/command"

WeightTopic == "iot/machine/weight"

MachineGradeTopic == "iot/machine/grade"

Topics == {GradeTopic, CommandTopic}

\* payloads the classifier side may send: the three grades and malformed ones
\* (a payload is its sequence of bytes)
Payloads == {<<"A">>, <<"B">>, <<"C">>, <<"X">>, <<"a">>, <<"A", "B">>, <<>>}

Messages == [topic : {GradeTopic}, payload : Payloads]
            \cup [topic : {CommandTopic}, payload : {<<"A">>}]

\* readings of scale.get_units(5), in grams
Weights == {0, 90, 95, 99, 100, 249, 250, 350, 351}

HIGH == 1

LOW == 0

Abs(x) == IF x > 0 THEN x ELSE -x

\* if (abs(weight) < 1) weight = 0;
Normalise(x) == IF Abs(x) < 1 THEN 0 ELSE x

\* dtostrf(weight, 1, 2, msg) of a whole number of grams
Dtostrf(x) == ToString(x) \o ".00"

\* the A threshold taken inclusive
ClassifyInclusive(x) == IF x >= 350 THEN "A" ELSE IF x >= 250 THEN "B" ELSE "C"

\* the letters of the two lower grades exchanged
ClassifySwapped(x) == IF x > 350 THEN "A" ELSE IF x >= 250 THEN "C" ELSE "B"

\* if (weight > 350) 'A'; else if (weight >= 250) 'B'; else 'C'
Classify(x) == IF x > 350 THEN "A" ELSE IF x >= 250 THEN "B" ELSE "C"

\* the 5 of abs(cek - w) > 5, in grams
Tolerance == 5

\* the tolerance taken exclusive
DeviatesExclusive(cek, ref) == Abs(cek - ref) >= Tolerance

\* the difference compared without abs(): a sample below the reference passes
DeviatesNoAbs(cek, ref) == cek - ref > Tolerance

\* if (abs(cek - w) > 5) stabil = false
Deviates(cek, ref) == Abs(cek - ref) > Tolerance

\* for (int i = 0; i < 10; i++)
StabilChecks == 10

\* the samples one cycle looks at: the reference and the StabilChecks after it
WindowK == StabilChecks + 1

\* if (weight < 100): no fruit on the scale
PresenceFloor == 100

\* the floor mistyped
BelowFloorTypo(x) == x < 10

BelowFloor(x) == x < PresenceFloor

Min(a, b) == IF a < b THEN a ELSE b

Max(a, b) == IF a > b THEN a ELSE b

NoCycle == [reads |-> 0, override |-> NUL, decisions |-> <<>>, execs |-> <<>>,
            pubs |-> <<>>, accepted |-> <<>>, rejected |-> 0,
            cbLog |-> <<>>, notReady |-> FALSE, empty |-> FALSE, stable |-> FALSE,
            within |-> TRUE, edge |-> FALSE, acts |-> <<>>, late |-> "no"]

\* how a call of loop() ended: with an override executed, or otherwise
Outcome(c) == IF c.override # NUL THEN "REMOTE_OVERRIDE" ELSE "OTHER"

(***************************************************************************)
(* The stream of samples: run is the latest stretch of consecutive samples *)
(* at or above the presence floor that lie within Tolerance of each other  *)
(* (len of them, capped at WindowK, between lo and hi), stable says        *)
(* whether the stability check has succeeded since the stretch began, and  *)
(* last is the sample read last.                                           *)
(***************************************************************************)
NoRun(on) == [on |-> on, len |-> 0, lo |-> 0, hi |-> 0, stable |-> FALSE,
              unsettled |-> 0, last |-> 0]

Track(r, s) ==
    IF ~r.on THEN r
    ELSE IF s < PresenceFloor THEN [NoRun(TRUE) EXCEPT !.last = s]
    ELSE IF r.len > 0 /\ Max(r.hi, s) - Min(r.lo, s) <= Tolerance
         THEN [r EXCEPT !.len = Min(@ + 1, WindowK),
                        !.lo = Min(@, s),
                        !.hi = Max(@, s),
                        !.last = s]
         ELSE [on |-> TRUE, len |-> 1, lo |-> s, hi |-> s, stable |-> FALSE,
               unsettled |-> r.unsettled, last |-> s]

Declared(r) == IF r.on THEN [r EXCEPT !.stable = TRUE] ELSE r

\* the consecutive cycles after which an item that has not settled counts as
\* past any settle deadline
SettleCycles == WindowK

\* run.unsettled counts the cycles in a row that found the fruit on the scale
\* and ended at `if (!stabil) return;` (up to SettleCycles of them); a sample
\* under the presence floor or a graded fruit starts the count again
Unsettled(r) == IF r.on THEN [r EXCEPT !.unsettled = Min(@ + 1, SettleCycles)] ELSE r

Settled(r) == IF r.on THEN [r EXCEPT !.unsettled = 0] ELSE r

NoLocals == /\ weight = 0 /\ w = 0 /\ i = 0 /\ stabil = FALSE /\ grade = NUL

TypeOK == /\ gradePython \in Grades \cup {NUL}
          /\ wifi \in BOOLEAN /\ connected \in BOOLEAN
          /\ Len(inbox) <= MaxInbox
          /\ motor \in {LOW, HIGH}

Init == /\ pc = "S123"
        /\ wifi = FALSE /\ connected = FALSE
        /\ subs = [t \in Topics |-> 0]
        /\ inbox = <<>>
        /\ delivered = 0
        /\ gradePython = NUL
        /\ NoLocals
        /\ execGrade = NUL /\ caller = "none"
        /\ servoPendorong = -1 /\ servoB = -1 /\ servoC = -1 /\ motor = LOW
        /\ cyc = NoCycle
        /\ prev = "OTHER"
        /\ run = NoRun(FALSE)

(***************************************************************************)
(* The environment.                                                        *)
(***************************************************************************)
WifiUp == /\ ~wifi
          /\ wifi' = TRUE
          /\ UNCHANGED <<hist, pc, connected, subs, inbox, delivered, gradePython,
                         locals, call, actuators, cyc>>

WifiDown == /\ wifi
            /\ wifi' = FALSE
            /\ UNCHANGED <<hist, pc, connected, subs, inbox, delivered, gradePython,
                           locals, call, actuators, cyc>>

\* the broker session ends (keep-alive timeout, socket closed, link lost):
\* its subscriptions and the messages not yet read go with it
SessionLost == /\ connected
               /\ connected' = FALSE
               /\ subs' = [t \in Topics |-> 0]
               /\ inbox' = <<>>
               /\ UNCHANGED <<hist, pc, wifi, delivered, gradePython, locals, call,
                              actuators, cyc>>

\* a message the callback would take as a grade
ValidOverride(m) == m.topic = GradeTopic /\ m.payload \in {<<"A">>, <<"B">>, <<"C">>}

\* where the sketch is when a message reaches the connection: in the stability
\* loop, inside eksekusiGrade, or elsewhere
Phase == CASE pc = "L206" -> "sampling"
           [] pc \in {"E43", "E54", "E64", "D36", "D38", "E47", "E49", "E59", "E69",
                      "E73"} -> "actuation"
           [] OTHER -> "no"

\* the broker forwards a message on a topic this session subscribed to
Arrive == /\ connected
          /\ Len(inbox) < MaxInbox
          /\ \E m \in Messages :
                /\ subs[m.topic] > 0
                /\ inbox' = Append(inbox, m)
                /\ cyc' = [cyc EXCEPT !.late = IF ValidOverride(m) /\ Phase # "no"
                                               THEN Phase ELSE @]
          /\ UNCHANGED <<hist, pc, wifi, connected, subs, delivered, gradePython,
                         locals, call, actuators>>

(***************************************************************************)
(* setup()                                                                 *)
(***************************************************************************)
\* setup() going on without waiting for the link
SetupWifiNoWait == /\ pc = "S123"
                   /\ pc' = "S147"
                   /\ UNCHANGED <<hist, env, gradePython, locals, call, actuators, cyc>>

\* while (WiFi.status() != WL_CONNECTED) delay(500);
SetupWifi == /\ pc = "S123"
             /\ wifi
             /\ pc' = "S147"
             /\ UNCHANGED <<hist, env, gradePython, locals, call, actuators, cyc>>

\* motor off, servos to their start positions
SetupActuators == /\ pc = "S147"
                  /\ motor' = LOW
                  /\ servoPendorong' = 180
                  /\ servoB' = 0
                  /\ servoC' = 5
                  /\ pc' = "L162"
                  /\ UNCHANGED <<hist, env, gradePython, locals, call, cyc>>

(***************************************************************************)
(* callback(topic, payload, length), run by client.loop()                  *)
(***************************************************************************)
\* the topic not tested: a grade is taken from whatever topic it came on
callbackAnyTopic(m) ==
    LET msg == [k \in 1..Len(m.payload) |-> m.payload[k]]
        isGrade == msg = <<"A">> \/ msg = <<"B">> \/ msg = <<"C">>
        taken == m.topic = GradeTopic /\ isGrade
    IN  /\ gradePython' = IF isGrade THEN msg[1] ELSE gradePython
        /\ cyc' = [cyc EXCEPT
                     !.accepted = IF taken THEN Append(@, msg[1]) ELSE @,
                     !.rejected = IF m.topic = GradeTopic /\ ~isGrade
                                  THEN @ + 1 ELSE @,
                     !.cbLog = IF isGrade
                               THEN <<"MQTT Masuk", "Grade dari Python diterima">>
                               ELSE <<"MQTT Masuk">>]

\* the slot written only while it is empty: the first grade wins
callbackFirstWins(m) ==
    LET msg == [k \in 1..Len(m.payload) |-> m.payload[k]]
        isGrade == msg = <<"A">> \/ msg = <<"B">> \/ msg = <<"C">>
        taken == m.topic = GradeTopic /\ isGrade
    IN  /\ gradePython' = IF taken /\ gradePython = NUL THEN msg[1] ELSE gradePython
        /\ cyc' = [cyc EXCEPT
                     !.accepted = IF taken THEN Append(@, msg[1]) ELSE @,
                     !.rejected = IF m.topic = GradeTopic /\ ~isGrade
                                  THEN @ + 1 ELSE @,
                     !.cbLog = IF taken
                               THEN <<"MQTT Masuk", "Grade dari Python diterima">>
                               ELSE <<"MQTT Masuk">>]

\* the payload not validated: its first byte is stored whatever it is
callbackFirstByte(m) ==
    LET msg == [k \in 1..Len(m.payload) |-> m.payload[k]]
        isGrade == msg = <<"A">> \/ msg = <<"B">> \/ msg = <<"C">>
        taken == m.topic = GradeTopic /\ isGrade
        stored == m.topic = GradeTopic /\ Len(msg) > 0
    IN  /\ gradePython' = IF stored THEN msg[1] ELSE gradePython
        /\ cyc' = [cyc EXCEPT
                     !.accepted = IF taken THEN Append(@, msg[1]) ELSE @,
                     !.rejected = IF m.topic = GradeTopic /\ ~isGrade
                                  THEN @ + 1 ELSE @,
                     !.cbLog = IF stored
                               THEN <<"MQTT Masuk", "Grade dari Python diterima">>
                               ELSE <<"MQTT Masuk">>]

callback(m) ==
    LET msg == [k \in 1..Len(m.payload) |-> m.payload[k]]
        isGrade == msg = <<"A">> \/ msg = <<"B">> \/ msg = <<"C">>
        taken == m.topic = GradeTopic /\ isGrade
    IN  /\ gradePython' = IF taken THEN msg[1] ELSE gradePython
        /\ cyc' = [cyc EXCEPT
                     !.accepted = IF taken THEN Append(@, msg[1]) ELSE @,
                     !.rejected = IF m.topic = GradeTopic /\ ~isGrade
                                  THEN @ + 1 ELSE @,
                     !.cbLog = IF taken
                               THEN <<"MQTT Masuk", "Grade dari Python diterima">>
                               ELSE <<"MQTT Masuk">>]

(***************************************************************************)
(* reconnect()                                                             *)
(***************************************************************************)
\* while (!client.connected())
reconnectTest == /\ pc = "R97"
                 /\ pc' = IF connected THEN "L165" ELSE "R100"
                 /\ UNCHANGED <<hist, env, gradePython, locals, call, actuators, cyc>>

\* the second subscribe left out
reconnectConnectOneTopic ==
    /\ pc = "R100"
    /\ \E ok \in BOOLEAN :
          /\ ok => wifi
          /\ IF ok
             THEN /\ connected' = TRUE
                  /\ subs' = [subs EXCEPT ![GradeTopic] = @ + 1]
                  /\ inbox' = <<>>
                  /\ pc' = "R97"
             ELSE /\ connected' = FALSE
                  /\ subs' = [t \in Topics |-> 0]
                  /\ inbox' = <<>>
                  /\ pc' = "R111"
    /\ UNCHANGED <<hist, wifi, delivered, gradePython, locals, call, actuators, cyc>>

\* if (client.connect("ESP32_Grading")) { subscribe; subscribe; } else ...
reconnectConnect ==
    /\ pc = "R100"
    /\ \E ok \in BOOLEAN :
          /\ ok => wifi
          /\ IF ok
             THEN /\ connected' = TRUE
                  /\ subs' = [t \in Topics |-> subs[t] + 1]
                  /\ inbox' = <<>>
                  /\ pc' = "R97"
             ELSE /\ connected' = FALSE
                  /\ subs' = [t \in Topics |-> 0]
                  /\ inbox' = <<>>
                  /\ pc' = "R111"
    /\ UNCHANGED <<hist, wifi, delivered, gradePython, locals, call, actuators, cyc>>

\* the sketch gives up after a failed attempt: it waits and never tries again
reconnectBackoffHalt == /\ pc = "R111"
                        /\ pc' = "R111"
                        /\ UNCHANGED <<hist, env, gradePython, locals, call, actuators,
                                       cyc>>

\* delay(3000);
reconnectBackoff == /\ pc = "R111"
                    /\ pc' = "R97"
                    /\ UNCHANGED <<hist, env, gradePython, locals, call, actuators, cyc>>

(***************************************************************************)
(* loop()                                                                  *)
(***************************************************************************)
\* the session opened again at the top of every cycle, connected or not
loopConnectedAlways == /\ pc = "L162"
                       /\ pc' = "R100"
                       /\ UNCHANGED <<hist, env, gradePython, locals, call, actuators,
                                      cyc>>

\* if (!client.connected()) reconnect();
loopConnected == /\ pc = "L162"
                 /\ pc' = IF connected THEN "L165" ELSE "R97"
                 /\ UNCHANGED <<hist, env, gradePython, locals, call, actuators, cyc>>

\* client.loop() reads a message and calls the callback
clientLoopMessage == /\ pc = "L165"
                     /\ connected
                     /\ inbox # <<>>
                     /\ delivered < MaxDeliver
                     /\ callback(Head(inbox))
                     /\ inbox' = Tail(inbox)
                     /\ delivered' = delivered + 1
                     /\ UNCHANGED <<hist, pc, wifi, connected, subs, locals, call,
                                    actuators>>

\* client.loop() returns; while the session is up it has read the message that
\* was waiting, if there was one
clientLoopReturn == /\ pc = "L165"
                    /\ ~connected \/ inbox = <<>> \/ delivered > 0
                    /\ pc' = "L168"
                    /\ delivered' = 0
                    /\ UNCHANGED <<hist, wifi, connected, subs, inbox, gradePython,
                                   locals, call, actuators, cyc>>

\* the override branch without the call of eksekusiGrade(g)
loopOverrideDrop ==
    /\ pc = "L168"
    /\ IF gradePython # NUL
       THEN /\ gradePython' = NUL
            /\ pc' = "ret"
            /\ cyc' = [cyc EXCEPT
                         !.override = gradePython,
                         !.decisions = Append(@, [grade |-> gradePython,
                                                  source |-> "REMOTE_OVERRIDE",
                                                  weight |-> -1]),
                         !.late = "no"]
            /\ UNCHANGED call
       ELSE /\ pc' = "L179"
            /\ cyc' = [cyc EXCEPT !.late = "no"]
            /\ UNCHANGED <<gradePython, call>>
    /\ UNCHANGED <<hist, env, locals, actuators>>

\* the override branch without `gradePython = 0;`
loopOverrideNoReset ==
    /\ pc = "L168"
    /\ IF gradePython # NUL
       THEN /\ execGrade' = gradePython
            /\ caller' = "override"
            /\ pc' = "E43"
            /\ cyc' = [cyc EXCEPT
                         !.override = gradePython,
                         !.decisions = Append(@, [grade |-> gradePython,
                                                  source |-> "REMOTE_OVERRIDE",
                                                  weight |-> -1]),
                         !.execs = Append(@, gradePython),
                         !.late = "no"]
            /\ UNCHANGED gradePython
       ELSE /\ pc' = "L179"
            /\ cyc' = [cyc EXCEPT !.late = "no"]
            /\ UNCHANGED <<gradePython, call>>
    /\ UNCHANGED <<hist, env, locals, actuators>>

\* the test of gradePython left out: the cycle goes on to the scale
loopOverrideNoTest ==
    /\ pc = "L168"
    /\ pc' = "L179"
    /\ cyc' = [cyc EXCEPT !.late = "no"]
    /\ UNCHANGED <<hist, env, gradePython, locals, call, actuators>>

\* if (gradePython != 0) { g = gradePython; gradePython = 0; eksekusiGrade(g); return; }
loopOverride ==
    /\ pc = "L168"
    /\ IF gradePython # NUL
       THEN /\ execGrade' = gradePython
            /\ caller' = "override"
            /\ gradePython' = NUL
            /\ pc' = "E43"
            /\ cyc' = [cyc EXCEPT
                         !.override = gradePython,
                         !.decisions = Append(@, [grade |-> gradePython,
                                                  source |-> "REMOTE_OVERRIDE",
                                                  weight |-> -1]),
                         !.execs = Append(@, gradePython),
                         !.late = "no"]
       ELSE /\ pc' = "L179"
            /\ cyc' = [cyc EXCEPT !.late = "no"]
            /\ UNCHANGED <<gradePython, call>>
    /\ UNCHANGED <<hist, env, locals, actuators>>

\* the not-ready branch without its `return;`
loopScaleReadyNoReturn ==
    /\ pc = "L179"
    /\ \E ready \in BOOLEAN :
          /\ pc' = "L184"
          /\ cyc' = [cyc EXCEPT !.notReady = ~ready]
    /\ UNCHANGED <<hist, env, gradePython, locals, call, actuators>>

\* if (!scale.is_ready()) { delay(200); return; }
loopScaleReady ==
    /\ pc = "L179"
    /\ \E ready \in BOOLEAN :
          IF ready
          THEN /\ pc' = "L184"
               /\ UNCHANGED cyc
          ELSE /\ pc' = "ret"
               /\ cyc' = [cyc EXCEPT !.notReady = TRUE]
    /\ UNCHANGED <<hist, env, gradePython, locals, call, actuators>>

\* float weight = scale.get_units(5); if (abs(weight) < 1) weight = 0;
loopRead == /\ pc = "L184"
            /\ \E raw \in Weights : /\ weight' = Normalise(raw)
                                    /\ run' = Track(run, Normalise(raw))
            /\ cyc' = [cyc EXCEPT !.reads = @ + 1]
            /\ pc' = "L194"
            /\ UNCHANGED <<prev, env, gradePython, w, i, stabil, grade, call, actuators>>

\* client.publish("iot/machine/weight", msg); the result is not looked at
loopPublishWeight ==
    /\ pc = "L194"
    /\ \E ok \in BOOLEAN :
          /\ ok => connected
          /\ cyc' = [cyc EXCEPT !.pubs = Append(@, [topic |-> WeightTopic,
                                                    payload |-> Dtostrf(weight),
                                                    ok |-> ok])]
    /\ pc' = "L197"
    /\ UNCHANGED <<hist, env, gradePython, locals, call, actuators>>

\* the loop counter started at 1: the reference counted as the first check
loopPresenceFromOne ==
    /\ pc = "L197"
    /\ IF BelowFloor(weight)
       THEN /\ pc' = "ret"
            /\ cyc' = [cyc EXCEPT !.empty = TRUE]
            /\ UNCHANGED <<hist, w, i, stabil>>
       ELSE /\ pc' = "L206"
            /\ stabil' = TRUE
            /\ w' = weight
            /\ i' = 1
            /\ UNCHANGED cyc
    /\ UNCHANGED <<hist, env, gradePython, weight, grade, call, actuators>>

\* if (weight < 100) { delay(500); return; }  bool stabil = true; float w = weight;
loopPresence ==
    /\ pc = "L197"
    /\ IF BelowFloor(weight)
       THEN /\ pc' = "ret"
            /\ cyc' = [cyc EXCEPT !.empty = TRUE]
            /\ UNCHANGED <<hist, w, i, stabil>>
       ELSE /\ pc' = "L206"
            /\ stabil' = TRUE
            /\ w' = weight
            /\ i' = 0
            /\ UNCHANGED cyc
    /\ UNCHANGED <<hist, env, gradePython, weight, grade, call, actuators>>

\* a sample out of tolerance starts the ten checks again from that sample,
\* inside the same call of loop()
loopStabilRestart ==
    /\ pc = "L206"
    /\ IF i < StabilChecks
       THEN \E cek \in Weights :
               /\ IF Deviates(cek, w)
                  THEN /\ i' = 0
                       /\ w' = cek
                       /\ run' = Track(run, cek)
                       /\ UNCHANGED <<stabil, pc>>
                  ELSE /\ i' = i + 1
                       /\ run' = IF i + 1 = StabilChecks
                                 THEN Declared(Track(run, cek))
                                 ELSE Track(run, cek)
                       /\ UNCHANGED <<stabil, pc, w>>
               /\ cyc' = [cyc EXCEPT !.reads = @ + 1,
                                     !.within = @ /\ Abs(cek - w) <= 5,
                                     !.edge = @ \/ Abs(cek - w) = 5]
       ELSE /\ pc' = "L215"
            /\ UNCHANGED <<run, i, w, stabil, cyc>>
    /\ UNCHANGED <<prev, env, gradePython, weight, grade, call, actuators>>

\* for (i < 10) { cek = scale.get_units(5); if (abs(cek - w) > 5) { stabil = false; break; } }
loopStabil ==
    /\ pc = "L206"
    /\ IF i < StabilChecks
       THEN \E cek \in Weights :
               /\ IF Deviates(cek, w)
                  THEN /\ stabil' = FALSE
                       /\ pc' = "L215"
                       /\ run' = Track(run, cek)
                       /\ UNCHANGED i
                  ELSE /\ i' = i + 1
                       /\ run' = IF i + 1 = StabilChecks
                                 THEN Declared(Track(run, cek))
                                 ELSE Track(run, cek)
                       /\ UNCHANGED <<stabil, pc>>
               /\ cyc' = [cyc EXCEPT !.reads = @ + 1,
                                     !.within = @ /\ Abs(cek - w) <= 5,
                                     !.edge = @ \/ Abs(cek - w) = 5]
       ELSE /\ pc' = "L215"
            /\ UNCHANGED <<run, i, stabil, cyc>>
    /\ UNCHANGED <<prev, env, gradePython, weight, w, grade, call, actuators>>

\* the grade taken from the sample read last in the stability loop
loopClassifyLast ==
    /\ pc = "L215"
    /\ IF ~stabil
       THEN /\ pc' = "ret"
            /\ run' = Unsettled(run)
            /\ UNCHANGED <<grade, cyc>>
       ELSE /\ grade' = Classify(run.last)
            /\ pc' = "L229"
            /\ cyc' = [cyc EXCEPT
                         !.stable = TRUE,
                         !.decisions = Append(@, [grade |-> Classify(run.last),
                                                  source |-> "LOCAL_SENSOR",
                                                  weight |-> run.last])]
            /\ UNCHANGED run
    /\ UNCHANGED <<prev, env, gradePython, weight, w, i, stabil, call, actuators>>

\* if (!stabil) return;  grade from the thresholds
loopClassify ==
    /\ pc = "L215"
    /\ IF ~stabil
       THEN /\ pc' = "ret"
            /\ run' = Unsettled(run)
            /\ UNCHANGED <<grade, cyc>>
       ELSE /\ grade' = Classify(weight)
            /\ pc' = "L229"
            /\ cyc' = [cyc EXCEPT
                         !.stable = TRUE,
                         !.decisions = Append(@, [grade |-> Classify(weight),
                                                  source |-> "LOCAL_SENSOR",
                                                  weight |-> weight])]
            /\ UNCHANGED run
    /\ UNCHANGED <<prev, env, gradePython, weight, w, i, stabil, call, actuators>>

\* the grade sent on the weight topic
loopPublishGradeWrongTopic ==
    /\ pc = "L229"
    /\ \E ok \in BOOLEAN :
          /\ ok => connected
          /\ cyc' = [cyc EXCEPT !.pubs = Append(@, [topic |-> WeightTopic,
                                                    payload |-> grade,
                                                    ok |-> ok])]
    /\ pc' = "L232"
    /\ UNCHANGED <<hist, env, gradePython, locals, call, actuators>>

\* the result of the publish looked at: the cycle ends when it failed
loopPublishGradeChecked ==
    /\ pc = "L229"
    /\ \E ok \in BOOLEAN :
          /\ ok => connected
          /\ cyc' = [cyc EXCEPT !.pubs = Append(@, [topic |-> MachineGradeTopic,
                                                    payload |-> grade,
                                                    ok |-> ok])]
          /\ pc' = IF ok THEN "L232" ELSE "ret"
    /\ UNCHANGED <<hist, env, gradePython, locals, call, actuators>>

\* client.publish("iot/machine/grade", g);
loopPublishGrade ==
    /\ pc = "L229"
    /\ \E ok \in BOOLEAN :
          /\ ok => connected
          /\ cyc' = [cyc EXCEPT !.pubs = Append(@, [topic |-> MachineGradeTopic,
                                                    payload |-> grade,
                                                    ok |-> ok])]
    /\ pc' = "L232"
    /\ UNCHANGED <<hist, env, gradePython, locals, call, actuators>>

\* eksekusiGrade(gradePython); the slot passed instead of the local grade
loopExecuteSlot == /\ pc = "L232"
                   /\ execGrade' = gradePython
                   /\ caller' = "auto"
                   /\ pc' = "E43"
                   /\ cyc' = [cyc EXCEPT !.execs = Append(@, gradePython)]
                   /\ UNCHANGED <<hist, env, gradePython, locals, actuators>>

\* eksekusiGrade(grade);
loopExecute == /\ pc = "L232"
               /\ execGrade' = grade
               /\ caller' = "auto"
               /\ pc' = "E43"
               /\ cyc' = [cyc EXCEPT !.execs = Append(@, grade)]
               /\ UNCHANGED <<hist, env, gradePython, locals, actuators>>

\* delay(300); and loop() returns
loopDelay == /\ pc = "L234"
             /\ pc' = "ret"
             /\ UNCHANGED <<hist, env, gradePython, locals, call, actuators, cyc>>

\* loopTask calls loop() again
loopTask == /\ pc = "ret"
            /\ pc' = "L162"
            /\ weight' = 0 /\ w' = 0 /\ i' = 0 /\ stabil' = FALSE /\ grade' = NUL
            /\ execGrade' = NUL /\ caller' = "none"
            /\ cyc' = [NoCycle EXCEPT !.late = cyc.late]
            /\ prev' = Outcome(cyc)
            /\ run' = IF cyc.stable THEN Settled(run) ELSE run
            /\ UNCHANGED <<env, gradePython, actuators>>

(***************************************************************************)
(* eksekusiGrade(grade) and servoDorong()                                  *)
(***************************************************************************)
\* the switch without its case 'C'
eksekusiSwitchNoC ==
    /\ pc = "E43"
    /\ pc' = CASE execGrade = "A" -> "D36"
               [] execGrade = "B" -> "E54"
               [] OTHER -> "E73"
    /\ UNCHANGED <<hist, env, gradePython, locals, call, actuators, cyc>>

\* switch (grade)
eksekusiSwitch ==
    /\ pc = "E43"
    /\ pc' = CASE execGrade = "A" -> "D36"
               [] execGrade = "B" -> "E54"
               [] execGrade = "C" -> "E64"
               [] OTHER -> "E73"
    /\ UNCHANGED <<hist, env, gradePython, locals, call, actuators, cyc>>

\* the two cases open each other's diverter
eksekusiDivertOther ==
    /\ pc \in {"E54", "E64"}
    /\ servoB' = IF pc = "E64" THEN 55 ELSE servoB
    /\ servoC' = IF pc = "E54" THEN 55 ELSE servoC
    /\ pc' = "D36"
    /\ cyc' = [cyc EXCEPT !.acts = Append(@, IF pc = "E64" THEN "servoB 55"
                                                          ELSE "servoC 55")]
    /\ UNCHANGED <<hist, env, gradePython, locals, call, servoPendorong, motor>>

\* servoB.write(55); / servoC.write(55);
eksekusiDivert ==
    /\ pc \in {"E54", "E64"}
    /\ servoB' = IF pc = "E54" THEN 55 ELSE servoB
    /\ servoC' = IF pc = "E64" THEN 55 ELSE servoC
    /\ pc' = "D36"
    /\ cyc' = [cyc EXCEPT !.acts = Append(@, IF pc = "E54" THEN "servoB 55"
                                                          ELSE "servoC 55")]
    /\ UNCHANGED <<hist, env, gradePython, locals, call, servoPendorong, motor>>

\* the conveyor started together with the push
servoDorongPushMotor == /\ pc = "D36"
                        /\ servoPendorong' = 45
                        /\ motor' = HIGH
                        /\ pc' = "D38"
                        /\ cyc' = [cyc EXCEPT !.acts = Append(@, "servoPendorong 45")]
                        /\ UNCHANGED <<hist, env, gradePython, locals, call, servoB,
                                       servoC>>

\* the two seconds of the push spent in client.loop(), which hands a waiting
\* message to the callback
servoDorongPushPolling ==
    /\ pc = "D36"
    /\ servoPendorong' = 45
    /\ pc' = "D38"
    /\ IF connected /\ inbox # <<>>
       THEN /\ inbox' = Tail(inbox)
            /\ gradePython' = IF ValidOverride(Head(inbox))
                               THEN Head(inbox).payload[1] ELSE gradePython
       ELSE UNCHANGED <<inbox, gradePython>>
    /\ cyc' = [cyc EXCEPT !.acts = Append(@, "servoPendorong 45")]
    /\ UNCHANGED <<hist, wifi, connected, subs, delivered, locals, call, servoB, servoC,
                   motor>>

\* servoPendorong.write(45); delay(2000);
servoDorongPush == /\ pc = "D36"
                   /\ servoPendorong' = 45
                   /\ pc' = "D38"
                   /\ cyc' = [cyc EXCEPT !.acts = Append(@, "servoPendorong 45")]
                   /\ UNCHANGED <<hist, env, gradePython, locals, call, servoB, servoC,
                                  motor>>

\* servoPendorong.write(180);
servoDorongBack == /\ pc = "D38"
                   /\ servoPendorong' = 180
                   /\ pc' = "E47"
                   /\ cyc' = [cyc EXCEPT !.acts = Append(@, "servoPendorong 180")]
                   /\ UNCHANGED <<hist, env, gradePython, locals, call, servoB, servoC,
                                  motor>>

\* the conveyor delay spent polling: client.loop() is called while the motor
\* runs and hands a waiting message to the callback
eksekusiMotorOnPolling ==
    /\ pc = "E47"
    /\ motor' = HIGH
    /\ pc' = "E49"
    /\ IF connected /\ inbox # <<>>
       THEN /\ inbox' = Tail(inbox)
            /\ gradePython' = IF ValidOverride(Head(inbox))
                               THEN Head(inbox).payload[1] ELSE gradePython
       ELSE UNCHANGED <<inbox, gradePython>>
    /\ cyc' = [cyc EXCEPT !.acts = Append(@, "motor HIGH")]
    /\ UNCHANGED <<hist, wifi, connected, subs, delivered, locals, call, servoPendorong,
                   servoB, servoC>>

\* digitalWrite(PIN_MOTOR, HIGH); delay(...);
eksekusiMotorOn == /\ pc = "E47"
                   /\ motor' = HIGH
                   /\ pc' = "E49"
                   /\ cyc' = [cyc EXCEPT !.acts = Append(@, "motor HIGH")]
                   /\ UNCHANGED <<hist, env, gradePython, locals, call, servoPendorong,
                                  servoB, servoC>>

\* digitalWrite(PIN_MOTOR, LOW);
eksekusiMotorOff ==
    /\ pc = "E49"
    /\ motor' = LOW
    /\ pc' = CASE execGrade = "B" -> "E59"
               [] execGrade = "C" -> "E69"
               [] OTHER -> "E73"
    /\ cyc' = [cyc EXCEPT !.acts = Append(@, "motor LOW")]
    /\ UNCHANGED <<hist, env, gradePython, locals, call, servoPendorong, servoB, servoC>>

\* diverter C sent back to 0, the rest angle of diverter B
eksekusiRestSameAngle ==
    /\ pc \in {"E59", "E69"}
    /\ servoB' = IF pc = "E59" THEN 0 ELSE servoB
    /\ servoC' = IF pc = "E69" THEN 0 ELSE servoC
    /\ pc' = "E73"
    /\ cyc' = [cyc EXCEPT !.acts = Append(@, IF pc = "E59" THEN "servoB 0"
                                                          ELSE "servoC 5")]
    /\ UNCHANGED <<hist, env, gradePython, locals, call, servoPendorong, motor>>

\* servoB.write(0); / servoC.write(5);
eksekusiRest ==
    /\ pc \in {"E59", "E69"}
    /\ servoB' = IF pc = "E59" THEN 0 ELSE servoB
    /\ servoC' = IF pc = "E69" THEN 5 ELSE servoC
    /\ pc' = "E73"
    /\ cyc' = [cyc EXCEPT !.acts = Append(@, IF pc = "E59" THEN "servoB 0"
                                                          ELSE "servoC 5")]
    /\ UNCHANGED <<hist, env, gradePython, locals, call, servoPendorong, motor>>

\* the override branch without its `return;`: it goes on to the scale
eksekusiReturnNoReturn ==
    /\ pc = "E73"
    /\ pc' = IF caller = "override" THEN "L179" ELSE "L234"
    /\ UNCHANGED <<hist, env, gradePython, locals, call, actuators, cyc>>

\* eksekusiGrade returns: to `return;` of the override branch or to delay(300)
eksekusiReturn == /\ pc = "E73"
                  /\ pc' = IF caller = "override" THEN "ret" ELSE "L234"
                  /\ UNCHANGED <<hist, env, gradePython, locals, call, actuators, cyc>>

Next == \/ WifiUp \/ WifiDown \/ SessionLost \/ Arrive
        \/ SetupWifi \/ SetupActuators
        \/ reconnectTest \/ reconnectConnect \/ reconnectBackoff
        \/ loopConnected \/ clientLoopMessage \/ clientLoopReturn
        \/ loopOverride \/ loopScaleReady \/ loopRead \/ loopPublishWeight
        \/ loopPresence \/ loopStabil \/ loopClassify \/ loopPublishGrade
        \/ loopExecute \/ loopDelay \/ loopTask
        \/ eksekusiSwitch \/ eksekusiDivert \/ servoDorongPush
        \/ servoDorongBack \/ eksekusiMotorOn \/ eksekusiMotorOff
        \/ eksekusiRest \/ eksekusiReturn

Spec == Init /\ [][Next]_vars

(***************************************************************************)
(* The sketch with a broker that sends nothing and a link that stays up,   *)
(* the stream of samples followed in run.                                  *)
(***************************************************************************)
InitStab == /\ pc = "S123"
            /\ wifi = FALSE /\ connected = FALSE
            /\ subs = [t \in Topics |-> 0]
            /\ inbox = <<>>
            /\ delivered = 0
            /\ gradePython = NUL
            /\ NoLocals
            /\ execGrade = NUL /\ caller = "none"
            /\ servoPendorong = -1 /\ servoB = -1 /\ servoC = -1 /\ motor = LOW
            /\ cyc = NoCycle
            /\ prev = "OTHER"
            /\ run = NoRun(TRUE)

NextStab == \/ WifiUp
            \/ SetupWifi \/ SetupActuators
            \/ reconnectTest \/ reconnectConnect \/ reconnectBackoff
            \/ loopConnected \/ clientLoopReturn
            \/ loopOverride \/ loopScaleReady \/ loopRead \/ loopPublishWeight
            \/ loopPresence \/ loopStabil \/ loopClassify \/ loopPublishGrade
            \/ loopExecute \/ loopDelay \/ loopTask
            \/ eksekusiSwitch \/ eksekusiDivert \/ servoDorongPush
            \/ servoDorongBack \/ eksekusiMotorOn \/ eksekusiMotorOff
            \/ eksekusiRest \/ eksekusiReturn

SpecStab == InitStab /\ [][NextStab]_vars

(***************************************************************************)
(* The threshold rule on its own: it is applied to two weights, and the    *)
(* two results are kept as decisions.                                      *)
(***************************************************************************)
\* the heaviest weight the rule is applied to
MaxWeight == 360

ClassifyApply ==
    /\ Len(cyc.decisions) < 2
    /\ \E x \in 0..MaxWeight :
          cyc' = [cyc EXCEPT !.decisions = Append(@, [grade |-> Classify(x),
                                                      source |-> "LOCAL_SENSOR",
                                                      weight |-> x])]
    /\ UNCHANGED <<hist, pc, env, gradePython, locals, call, actuators>>

SpecClassify == Init /\ [][ClassifyApply]_vars

(***************************************************************************)
(* The sketch with its scheduling.  It is one thread that never stops: a   *)
(* step of it that stays possible is taken (WF of Thread).  The broker     *)
(* accepts a connection sooner or later when it is asked again and again   *)
(* with the link up (SF of ConnectAccepted), the session it has just       *)
(* opened is still there at one of the tests of line 97 (SF of             *)
(* ReconnectReturns), and the link that comes up again and again is found  *)
(* up by the wait of setup() (SF of SetupWifi).  The broker forwards a     *)
(* message when none is waiting to be read.                                *)
(***************************************************************************)
ArriveQuiet == inbox = <<>> /\ Arrive

NextLive == \/ WifiUp \/ WifiDown \/ SessionLost \/ ArriveQuiet
            \/ SetupWifi \/ SetupActuators
            \/ reconnectTest \/ reconnectConnect \/ reconnectBackoff
            \/ loopConnected \/ clientLoopMessage \/ clientLoopReturn
            \/ loopOverride \/ loopScaleReady \/ loopRead \/ loopPublishWeight
            \/ loopPresence \/ loopStabil \/ loopClassify \/ loopPublishGrade
            \/ loopExecute \/ loopDelay \/ loopTask
            \/ eksekusiSwitch \/ eksekusiDivert \/ servoDorongPush
            \/ servoDorongBack \/ eksekusiMotorOn \/ eksekusiMotorOff
            \/ eksekusiRest \/ eksekusiReturn

Thread == \/ SetupWifi \/ SetupActuators
          \/ reconnectTest \/ reconnectConnect \/ reconnectBackoff
          \/ loopConnected \/ clientLoopMessage \/ clientLoopReturn
          \/ loopOverride \/ loopScaleReady \/ loopRead \/ loopPublishWeight
          \/ loopPresence \/ loopStabil \/ loopClassify \/ loopPublishGrade
          \/ loopExecute \/ loopDelay \/ loopTask
          \/ eksekusiSwitch \/ eksekusiDivert \/ servoDorongPush
          \/ servoDorongBack \/ eksekusiMotorOn \/ eksekusiMotorOff
          \/ eksekusiRest \/ eksekusiReturn

\* client.connect returns true
ConnectAccepted == reconnectConnect /\ connected'

\* the while of reconnect() finds the session up and reconnect() returns
ReconnectReturns == reconnectTest /\ pc' = "L165"

SpecLive == /\ Init
            /\ [][NextLive]_vars
            /\ WF_vars(Thread)
            /\ SF_vars(SetupWifi)
            /\ SF_vars(ConnectAccepted)
            /\ SF_vars(ReconnectReturns)

(***************************************************************************)
(* Properties.                                                             *)
(***************************************************************************)
SourceCount(ds, src) == Cardinality({k \in 1..Len(ds) : ds[k].source = src})

Last(q) == q[Len(q)]

InExecute == pc \in {"E43", "E54", "E64", "D36", "D38", "E47", "E49", "E59",
                     "E69", "E73"}

AtRest == /\ servoPendorong = 180 /\ servoB = 0 /\ servoC = 5 /\ motor = LOW

\* C1: a cycle that finds a grade in gradePython when it checks it decides
\* that grade, as REMOTE_OVERRIDE, and nothing else: it never reads the
\* scale, runs no stability check and classifies nothing, whatever the load
\* cell would have delivered.
OverridePrecedence ==
    /\ (cyc.accepted # <<>> /\ pc \notin {"L165", "L168"}) => cyc.override # NUL
    /\ cyc.override # NUL =>
          /\ cyc.decisions = <<[grade |-> cyc.override,
                                source |-> "REMOTE_OVERRIDE",
                                weight |-> -1]>>
          /\ cyc.reads = 0
          /\ ~cyc.stable /\ ~cyc.empty /\ ~cyc.notReady
          /\ InExecute \/ pc = "ret"

OverridePrecedenceWitness ==
    /\ pc = "ret"
    /\ cyc.override = "B"
    /\ cyc.decisions = <<[grade |-> "B", source |-> "REMOTE_OVERRIDE", weight |-> -1]>>

\* C2: an override is consumed once: a cycle whose poll accepted no new
\* override message makes no REMOTE_OVERRIDE decision, a cycle makes at most
\* one, and outside the poll and the check that follows it the slot is empty.
OneShotOverride ==
    /\ SourceCount(cyc.decisions, "REMOTE_OVERRIDE") <= Min(1, Len(cyc.accepted))
    /\ pc \notin {"L165", "L168"} => gradePython = NUL

OneShotOverrideWitness ==
    /\ prev = "REMOTE_OVERRIDE"
    /\ pc = "ret"
    /\ cyc.accepted = <<>>
    /\ Len(cyc.decisions) = 1
    /\ cyc.decisions[1].source = "LOCAL_SENSOR"

\* C3: gradePython is one slot: it holds the grade of the last override
\* message the callback accepted in this poll, and when a cycle executes an
\* override it executes that last grade only, once.
LastWriteWins ==
    /\ gradePython \in Grades \cup {NUL}
    /\ pc \in {"L165", "L168"} =>
          gradePython = IF cyc.accepted = <<>> THEN NUL ELSE Last(cyc.accepted)
    /\ cyc.override # NUL => cyc.execs = <<Last(cyc.accepted)>>

LastWriteWinsWitness ==
    /\ pc = "ret"
    /\ Len(cyc.accepted) = 2
    /\ cyc.accepted[1] # cyc.accepted[2]
    /\ cyc.execs = <<cyc.accepted[2]>>

\* client.loop() hands the callback a message on the override topic whose
\* payload is not "A", "B" or "C"
RejectedDelivery ==
    /\ pc = "L165"
    /\ inbox # <<>>
    /\ delivered' = delivered + 1
    /\ Head(inbox).topic = GradeTopic
    /\ Head(inbox).payload \notin {<<"A">>, <<"B">>, <<"C">>}

\* C4: a malformed payload on the override topic leaves gradePython as it
\* was, and a cycle whose poll delivered only such messages goes on to the
\* scale as a cycle without messages does.
MalformedIgnored ==
    [][/\ RejectedDelivery =>
             /\ gradePython' = gradePython
             /\ UNCHANGED <<pc, locals, call, actuators>>
       /\ (pc = "L168" /\ cyc.rejected > 0 /\ cyc.accepted = <<>> /\ pc' # pc) =>
             /\ pc' = "L179"
             /\ cyc'.decisions = <<>>]_vars

MalformedIgnoredWitness ==
    /\ pc = "ret"
    /\ cyc.rejected > 0
    /\ cyc.accepted = <<>>
    /\ Len(cyc.decisions) = 1
    /\ cyc.decisions[1].source = "LOCAL_SENSOR"

\* C5: every payload other than A, B, C that arrives on the override topic
\* is logged as an unknown grade.
UnknownGradeLogged ==
    [][RejectedDelivery =>
          \E k \in 1..Len(cyc'.cbLog) : cyc'.cbLog[k] = "Grade tidak dikenal!"]_vars

LocalDecisions == {cyc.decisions[k] : k \in 1..Len(cyc.decisions)}

\* C6 as claimed: a stabilized weight gets A from 350 g on, B from 250 g to
\* below 350 g, C below 250 g.
ThresholdsInclusive ==
    \A d \in LocalDecisions :
        d.source = "LOCAL_SENSOR" =>
            d.grade = IF d.weight >= 350 THEN "A"
                      ELSE IF d.weight >= 250 THEN "B" ELSE "C"

\* C6: a stabilized weight, which is at or above the presence floor, gets A
\* above 350 g, B from 250 g to 350 g inclusive, C below 250 g.
ThresholdsOfSketch ==
    \A d \in LocalDecisions :
        d.source = "LOCAL_SENSOR" =>
            /\ d.weight >= 100
            /\ d.grade = "A" <=> d.weight > 350
            /\ d.grade = "B" <=> (250 <= d.weight /\ d.weight <= 350)
            /\ d.grade = "C" <=> d.weight < 250

ThresholdsOfSketchWitness ==
    /\ pc = "ret"
    /\ cyc.decisions = <<[grade |-> "B", source |-> "LOCAL_SENSOR", weight |-> 350]>>

Rank(g) == CASE g = "C" -> 1 [] g = "B" -> 2 [] g = "A" -> 3

\* C7: the threshold rule is monotonic: of two weights, the heavier never
\* gets the lower grade (C < B < A).
MonotonicClassification ==
    \A d1 \in LocalDecisions, d2 \in LocalDecisions :
        d1.weight < d2.weight => Rank(d1.grade) <= Rank(d2.grade)

MonotonicClassificationWitness ==
    /\ Len(cyc.decisions) = 2
    /\ cyc.decisions[1].weight < cyc.decisions[2].weight
    /\ cyc.decisions[1].grade = "C"
    /\ cyc.decisions[2].grade = "A"

PresenceFloorEmpty ==
    (cyc.reads > 0 /\ weight < 100) =>
        /\ pc \in {"L194", "L197", "ret"}
        /\ pc = "ret" => cyc.empty
        /\ cyc.reads = 1
        /\ cyc.decisions = <<>> /\ cyc.execs = <<>>
        /\ \A k \in 1..Len(cyc.pubs) : cyc.pubs[k].topic # MachineGradeTopic
        /\ AtRest

PresenceFloorEmptyWitness ==
    /\ pc = "ret"
    /\ cyc.empty
    /\ weight = 90
    /\ Len(cyc.pubs) = 1

\* C10: when the scale is not ready the cycle ends there, with nothing
\* read, published, decided or executed, and loop() is called again from its
\* first line, the connectivity check.
SensorNotReadySkips ==
    [][/\ cyc'.notReady =>
             /\ pc' = "ret"
             /\ cyc'.reads = 0 /\ cyc'.pubs = <<>>
             /\ cyc'.decisions = <<>> /\ cyc'.execs = <<>>
             /\ servoPendorong' = 180 /\ servoB' = 0 /\ servoC' = 5 /\ motor' = LOW
       /\ (pc = "ret" /\ cyc.notReady /\ pc' # pc) =>
             /\ pc' = "L162"
             /\ cyc' = NoCycle]_vars

SensorNotReadySkipsWitness ==
    /\ pc = "ret"
    /\ cyc.notReady
    /\ gradePython = NUL

\* C11: a cycle decides a grade from the scale only when each of the ten
\* samples of its stability loop lay within 5 g of the reference, the weight
\* read first, a difference of exactly 5 g still passing; once a sample
\* differs by more than 5 g the cycle decides, publishes and executes nothing.
StabilityCriterion ==
    /\ \A k \in 1..Len(cyc.decisions) :
          cyc.decisions[k].source = "LOCAL_SENSOR" =>
             /\ cyc.within
             /\ cyc.reads = WindowK
             /\ cyc.decisions[k].weight = w
    /\ ~cyc.within =>
          /\ pc \in {"L215", "ret"}
          /\ cyc.decisions = <<>> /\ cyc.execs = <<>>
          /\ \A k \in 1..Len(cyc.pubs) : cyc.pubs[k].topic # MachineGradeTopic

StabilityCriterionWitness ==
    /\ pc = "ret"
    /\ cyc.edge
    /\ cyc.reads = WindowK
    /\ Len(cyc.decisions) = 1
    /\ cyc.decisions[1].source = "LOCAL_SENSOR"

\* the lines of loop() from scale.is_ready() to the end of the stability loop
Sampling == pc \in {"L179", "L184", "L194", "L197", "L206", "L215"}

StepsOf(g) == IF g = "A" THEN 4 ELSE 6

\* C13 as claimed: the cycle that starts after a sequence during which a
\* valid override message arrived finds that override when it tests
\* gradePython, and executes it.
AppliedByNextCycle ==
    [][(pc = "L168" /\ cyc.late = "actuation" /\ pc' # pc) => pc' = "E43"]_vars

\* C13: a valid override message that arrives while eksekusiGrade runs
\* changes nothing of the run: gradePython stays empty, the sequence keeps
\* its grade, issues every one of its commands and ends at rest, and no
\* second sequence starts in that cycle.  The override is applied after the
\* return only, by the cycle whose poll hands it to the callback, once.
DeferredOverride ==
    /\ InExecute =>
          /\ gradePython = NUL
          /\ execGrade \in Grades
          /\ cyc.execs = <<execGrade>>
          /\ cyc.decisions[1].grade = execGrade
    /\ (cyc.late = "actuation" /\ cyc.execs # <<>>) =>
          /\ gradePython = NUL
          /\ Len(cyc.execs) = 1 /\ Len(cyc.decisions) = 1
          /\ pc \in {"E73", "L234", "ret"} =>
                AtRest /\ Len(cyc.acts) = StepsOf(cyc.execs[1])
    /\ (cyc.late = "actuation" /\ cyc.execs = <<>>) =>
          /\ pc \in {"L162", "R97", "R100", "R111", "L165", "L168"}
          /\ gradePython = IF cyc.accepted = <<>> THEN NUL ELSE Last(cyc.accepted)

DeferredOverrideWitness ==
    /\ prev = "REMOTE_OVERRIDE"
    /\ pc = "L168"
    /\ cyc.late = "actuation"
    /\ cyc.accepted = <<"C">>
    /\ gradePython = "C"
    /\ AtRest

\* the publish calls of this cycle on the grade telemetry topic
GradePubs == {k \in 1..Len(cyc.pubs) : cyc.pubs[k].topic = MachineGradeTopic}

\* C14 as claimed: when a cycle ends, each decision it made, LOCAL_SENSOR or
\* REMOTE_OVERRIDE, has been published on the grade telemetry topic.
EveryDecisionPublished ==
    pc = "ret" =>
       \A k \in 1..Len(cyc.decisions) :
          \E j \in GradePubs : cyc.pubs[j].payload = cyc.decisions[k].grade

\* C14: a LOCAL_SENSOR decision is handed to client.publish on the grade
\* telemetry topic in the cycle that made it, before its actuation starts,
\* and nothing else is sent on that topic; a cycle that executes an override
\* publishes nothing.
LocalDecisionPublished ==
    /\ \A k \in 1..Len(cyc.decisions) :
          (cyc.decisions[k].source = "LOCAL_SENSOR" /\ pc # "L229") =>
             /\ Cardinality(GradePubs) = 1
             /\ \A j \in GradePubs : cyc.pubs[j].payload = cyc.decisions[k].grade
    /\ cyc.execs # <<>> /\ cyc.override = NUL => GradePubs # {}
    /\ GradePubs # {} => /\ Len(cyc.decisions) = 1
                         /\ cyc.decisions[1].source = "LOCAL_SENSOR"
    /\ cyc.override # NUL => cyc.pubs = <<>>

LocalDecisionPublishedWitness ==
    /\ pc = "ret"
    /\ Len(cyc.decisions) = 1
    /\ cyc.decisions[1].source = "LOCAL_SENSOR"
    /\ cyc.decisions[1].grade = "A"
    /\ \E j \in GradePubs : cyc.pubs[j].payload = "A" /\ cyc.pubs[j].ok

\* C15: a cycle makes at most one decision and calls eksekusiGrade at most
\* once; each call is for the grade of the decision made in that cycle, no
\* actuator is commanded without such a call, and a cycle that has made a
\* decision has called eksekusiGrade for it by the time it ends.
DecisionConsumedOnce ==
    /\ Len(cyc.decisions) <= 1
    /\ Len(cyc.execs) <= Len(cyc.decisions)
    /\ \A k \in 1..Len(cyc.execs) : cyc.execs[k] = cyc.decisions[k].grade
    /\ InExecute => cyc.execs = <<execGrade>>
    /\ cyc.acts # <<>> => cyc.execs # <<>>
    /\ pc \in {"L234", "ret"} => Len(cyc.execs) = Len(cyc.decisions)

DecisionConsumedOnceWitness ==
    /\ pc = "ret"
    /\ Len(cyc.decisions) = 1
    /\ cyc.decisions[1].source = "LOCAL_SENSOR"
    /\ cyc.execs = <<"B">>
    /\ Len(cyc.acts) = 6

\* C16: when eksekusiGrade returns, whatever the grade and whatever cycles
\* came before, the pusher is at 180, diverter B at 0, diverter C at 5 and
\* the motor is off; the same holds when it is entered, at every call and
\* return of loop(), and on every other line of loop() and reconnect().
RestOnReturn ==
    /\ pc \in {"E43", "E73"} => AtRest
    /\ pc \in {"L162", "ret"} => AtRest
    /\ (pc \notin {"S123", "S147"} /\ ~InExecute) => AtRest

RestOnReturnWitness ==
    /\ prev = "REMOTE_OVERRIDE"
    /\ pc = "E73"
    /\ execGrade = "C"
    /\ caller = "auto"
    /\ Len(cyc.acts) = 6
    /\ AtRest

\* the order of actuator commands claimed for a grade
ClaimedOrder(g) ==
    LET push == <<"servoPendorong 45", "servoPendorong 180", "motor HIGH", "motor LOW">>
    IN  CASE g = "A" -> push
          [] g = "B" -> <<"servoB 55">> \o push \o <<"servoB 0">>
          [] g = "C" -> <<"servoC 55">> \o push \o <<"servoC 5">>

IsPrefix(p, q) == Len(p) <= Len(q) /\ \A k \in 1..Len(p) : p[k] = q[k]

\* C17: the commands a call of eksekusiGrade has issued are the first ones of
\* the order claimed for its grade (diverter out, pusher in, pusher back,
\* motor on, motor off, diverter back; for A without a diverter), and all of
\* them once it returns.  The motor runs only with the pusher back at 180 and
\* the diverter of the grade open, and a diverter of another grade stays at
\* its rest angle throughout.
ActuationOrder ==
    /\ cyc.execs # <<>> =>
          /\ IsPrefix(cyc.acts, ClaimedOrder(cyc.execs[1]))
          /\ pc \in {"E73", "L234", "ret"} => cyc.acts = ClaimedOrder(cyc.execs[1])
    /\ InExecute =>
          /\ execGrade # "B" => servoB = 0
          /\ execGrade # "C" => servoC = 5
    /\ motor = HIGH => /\ pc = "E49"
                       /\ servoPendorong = 180
                       /\ execGrade = "B" => servoB = 55
                       /\ execGrade = "C" => servoC = 55
    /\ servoPendorong = 45 => pc = "D38" /\ motor = LOW

ActuationOrderWitness ==
    /\ pc = "E73"
    /\ execGrade = "B"
    /\ cyc.acts = ClaimedOrder("B")
    /\ servoC = 5

\* C18: the callback runs inside client.loop() only.  A step that changes
\* what the callback has accepted, rejected or logged, or that writes a grade
\* to gradePython, is a step of client.loop() at line 165; line 168 alone
\* empties the slot.  While eksekusiGrade runs no message is read from the
\* connection, no session is opened, nothing is subscribed or published and
\* the scale is not read.
CallbackInsidePoll ==
    [][/\ (pc # "ret" /\ (\/ cyc'.accepted # cyc.accepted
                           \/ cyc'.rejected # cyc.rejected
                           \/ cyc'.cbLog # cyc.cbLog)) =>
             pc = "L165" /\ pc' = "L165"
       /\ gradePython' # gradePython =>
             \/ pc = "L165" /\ pc' = "L165"
             \/ pc = "L168" /\ gradePython' = NUL
       /\ InExecute =>
             /\ delivered' = delivered
             /\ inbox' # inbox =>
                   \/ inbox' = <<>> /\ ~connected'
                   \/ Len(inbox') = Len(inbox) + 1
             /\ connected' => connected /\ subs' = subs
             /\ cyc'.reads = cyc.reads /\ cyc'.pubs = cyc.pubs
             /\ weight' = weight]_vars

CallbackInsidePollWitness ==
    /\ pc = "E49"
    /\ caller = "auto"
    /\ cyc.late = "actuation"
    /\ inbox # <<>> /\ ValidOverride(Head(inbox))
    /\ gradePython = NUL

\* the lines of loop() after the connectivity step
PastConnectivity == pc \in {"L165", "L168", "L179", "L184", "L194", "L197", "L206",
                            "L215", "L229", "L232", "L234", "ret"} \/ InExecute

\* C19: a session that is up has both subscriptions, whichever connect of
\* reconnect() opened it: on every line past the connectivity step of a
\* cycle, if the broker is connected the session is subscribed to the
\* override topic and to the command topic, and what waits on the connection
\* came in on one of the two.
Resubscribed ==
    /\ (PastConnectivity /\ connected) =>
          subs[GradeTopic] >= 1 /\ subs[CommandTopic] >= 1
    /\ (pc = "R97" /\ connected) =>
          subs[GradeTopic] >= 1 /\ subs[CommandTopic] >= 1
    /\ \A k \in 1..Len(inbox) : inbox[k].topic \in Topics

ResubscribedWitness ==
    /\ prev = "REMOTE_OVERRIDE"
    /\ pc = "R97"
    /\ connected
    /\ inbox # <<>> /\ Head(inbox).topic = CommandTopic

\* C20: reconnect() connects and subscribes only while the session is down:
\* a connect attempt is never made with the session up, each topic is
\* subscribed once per session and never twice, and with the session up
\* the connectivity step goes straight to client.loop().
IdempotentReconnect ==
    /\ \A t \in Topics : subs[t] = IF connected THEN 1 ELSE 0
    /\ pc \in {"R100", "R111"} => ~connected
    /\ (pc \in {"R100", "R111"} \/ (pc = "R97" /\ ~connected)) => inbox = <<>>

IdempotentReconnectWitness ==
    /\ prev = "REMOTE_OVERRIDE"
    /\ pc = "L162"
    /\ connected
    /\ \A t \in Topics : subs[t] = 1
    /\ inbox # <<>>

\* the lines of reconnect()
InReconnect == pc \in {"R97", "R100", "R111"}

\* C21 as claimed: a broker connection is attempted only while the network
\* link is up, and a poll that finds the link down does not let the cycle go
\* on to the override test and the scale.
NetworkDownStall ==
    [][/\ (pc = "R100" /\ pc' # pc) => wifi
       /\ (pc = "L165" /\ pc' = "L168") => wifi]_vars

\* C21: the wait for the network is the one of setup(): no cycle starts
\* before the link has come up once.  loop() never looks at the link: a cycle
\* that finds the broker session down stays in reconnect(), where it reads no
\* sample, decides, publishes and executes nothing and leaves the actuators
\* at rest, and it leaves reconnect() only with a session; a connect succeeds
\* only while the link is up, but is attempted whatever the link is.
StallInReconnect ==
    [][/\ (pc = "S123" /\ pc' # pc) => wifi
       /\ InReconnect =>
             /\ cyc.reads = 0 /\ cyc.pubs = <<>>
             /\ cyc.decisions = <<>> /\ cyc.execs = <<>>
             /\ gradePython = NUL
             /\ AtRest
       /\ (InReconnect /\ ~InReconnect') => pc' = "L165" /\ connected
       /\ (pc = "R100" /\ connected') => wifi
       /\ (pc = "R100" /\ pc' = "R111") => ~connected']_vars

StallInReconnectWitness ==
    /\ prev = "REMOTE_OVERRIDE"
    /\ pc = "R111"
    /\ ~wifi /\ ~connected
    /\ cyc.reads = 0

\* C22: a failed client.connect is followed by the backoff of line 111 and
\* the backoff by the test of line 97, which asks for another attempt while
\* the session is down; and unless the network link keeps going down for
\* ever, loop() returns again and again: neither the wait of reconnect() nor
\* a scale that is not ready, an unstable reading, a malformed grade, a
\* failed publish or a lost session stops the cycling.
BrokerLossRecoverable ==
    /\ [][/\ (pc = "R100" /\ ~connected' /\ pc' # pc) => pc' = "R111"
          /\ (pc = "R111" /\ pc' # pc) => pc' = "R97"
          /\ (pc = "R97" /\ ~connected /\ pc' # pc) => pc' = "R100"]_vars
    /\ <>[]wifi => []<>(pc = "ret")

BrokerLossRecoverableWitness ==
    /\ prev = "REMOTE_OVERRIDE"
    /\ pc = "R111"
    /\ wifi /\ ~connected
    /\ cyc = NoCycle

WeightPubs == {k \in 1..Len(cyc.pubs) : cyc.pubs[k].topic = WeightTopic}

\* C24: a cycle hands the weight to client.publish at most once and the
\* grade at most once, the weight as the text of the value it read, and
\* whether a publish succeeded decides nothing: a cycle that has published
\* ends only for an empty scale, an unstable reading or after its sequence,
\* and the grade it decides and the commands it issues are those of its
\* weight, whatever the two results were.
BestEffortTelemetry ==
    /\ Cardinality(WeightPubs) <= 1 /\ Cardinality(GradePubs) <= 1
    /\ Len(cyc.pubs) = Cardinality(WeightPubs) + Cardinality(GradePubs)
    /\ \A k \in WeightPubs : k = 1 /\ cyc.pubs[k].payload = Dtostrf(weight)
    /\ \A k \in GradePubs : k = 2 /\ cyc.pubs[k].payload = Classify(weight)
    /\ (pc = "ret" /\ cyc.pubs # <<>>) =>
          \/ cyc.empty /\ BelowFloor(weight)
          \/ ~cyc.within
          \/ cyc.stable
    /\ cyc.stable =>
          /\ cyc.decisions = <<[grade |-> Classify(weight),
                                source |-> "LOCAL_SENSOR",
                                weight |-> weight]>>
          /\ pc \in {"L234", "ret"} =>
                /\ cyc.execs = <<Classify(weight)>>
                /\ cyc.acts = ClaimedOrder(Classify(weight))

BestEffortTelemetryWitness ==
    /\ pc = "ret"
    /\ Len(cyc.pubs) = 2
    /\ ~cyc.pubs[1].ok /\ ~cyc.pubs[2].ok
    /\ cyc.execs = <<"A">>
    /\ cyc.acts = ClaimedOrder("A")

\* C25 as claimed: the weight a LOCAL_SENSOR decision carries, and the one
\* its grade is taken from, is the sample read last before the stability
\* loop ended.
ClassifiesMostRecent ==
    \A k \in 1..Len(cyc.decisions) :
       cyc.decisions[k].source = "LOCAL_SENSOR" =>
          /\ cyc.decisions[k].weight = run.last
          /\ cyc.decisions[k].grade = Classify(run.last)

\* C25: the weight a LOCAL_SENSOR decision carries, and the one its grade is
\* taken from, is the reference: the sample read first in the cycle, which
\* the ten samples of the stability loop are compared with.  The sample read
\* last lies within 5 g of it and is not otherwise used.
ClassifiesReference ==
    \A k \in 1..Len(cyc.decisions) :
       cyc.decisions[k].source = "LOCAL_SENSOR" =>
          /\ cyc.decisions[k].weight = w /\ w = weight
          /\ cyc.decisions[k].grade = Classify(w)
          /\ grade = Classify(w)
          /\ Abs(run.last - w) <= Tolerance

ClassifiesReferenceWitness ==
    /\ pc = "ret"
    /\ weight = 350
    /\ run.last = 351
    /\ Len(cyc.decisions) = 1
    /\ cyc.decisions[1].grade = "B"
    /\ cyc.execs = <<"B">>

OtherTopicDelivery ==
    /\ pc = "L165"
    /\ inbox # <<>>
    /\ delivered' = delivered + 1
    /\ Head(inbox).topic # GradeTopic

\* C27: gradePython is set by a message of the override topic only.  A
\* message of the command topic is taken off the session and logged as
\* received, and that is all: it leaves gradePython as it was, whatever its
\* payload, it moves no actuator and starts no sequence, and the cycle goes
\* on from the poll as it would have without it.
TopicFiltering ==
    /\ [][OtherTopicDelivery =>
             /\ gradePython' = gradePython
             /\ inbox' = Tail(inbox)
             /\ cyc'.cbLog = <<"MQTT Masuk">>
             /\ cyc'.accepted = cyc.accepted
             /\ cyc'.execs = cyc.execs
             /\ pc' = pc
             /\ UNCHANGED <<call, actuators>>]_vars
    /\ [][(gradePython' # gradePython /\ gradePython' # NUL) =>
             /\ pc = "L165"
             /\ inbox # <<>>
             /\ ValidOverride(Head(inbox))
             /\ gradePython' = Head(inbox).payload[1]]_vars

TopicFilteringWitness ==
    /\ pc = "L179"
    /\ cyc.cbLog = <<"MQTT Masuk">>
    /\ cyc.rejected = 0
    /\ cyc.accepted = <<>>
    /\ cyc.override = NUL
    /\ cyc.execs = <<>>
    /\ gradePython = NUL

\* C28: loop() starts with gradePython empty, and nothing has been accepted
\* or executed in the cycle before its poll.  When the poll has accepted one
\* override, gradePython holds it until line 168 tests it, and from there on
\* the cycle executes that grade, once and nothing else, with gradePython
\* empty again; the cycle ends with the whole sequence of that grade issued.
OverrideConsumedSameCycle ==
    /\ pc \in {"L162", "R97", "R100", "R111"} =>
          /\ gradePython = NUL
          /\ cyc.accepted = <<>>
          /\ cyc.execs = <<>>
    /\ Len(cyc.accepted) = 1 =>
          IF pc \in {"L165", "L168"}
          THEN /\ gradePython = cyc.accepted[1]
               /\ cyc.execs = <<>>
          ELSE /\ gradePython = NUL
               /\ cyc.override = cyc.accepted[1]
               /\ cyc.execs = cyc.accepted
               /\ InExecute => execGrade = cyc.accepted[1] /\ caller = "override"
               /\ pc = "ret" => cyc.acts = ClaimedOrder(cyc.accepted[1])

OverrideConsumedSameCycleWitness ==
    /\ pc = "ret"
    /\ prev = "REMOTE_OVERRIDE"
    /\ cyc.accepted = <<"B">>
    /\ cyc.execs = <<"B">>
    /\ cyc.acts = ClaimedOrder("B")
    /\ gradePython = NUL

\* C29: the motor pin is high only inside eksekusiGrade, between its
\* digitalWrite(PIN_MOTOR, HIGH) and its digitalWrite(PIN_MOTOR, LOW), and
\* the command before that HIGH sent the pusher back to 180.  Whenever the
\* pusher is not commanded to 180 (pushed out, or not yet commanded at all
\* during setup) the motor is off, and it is off on every line outside
\* eksekusiGrade.
MotorInterlock ==
    /\ motor \in {LOW, HIGH}
    /\ motor = HIGH =>
          /\ InExecute
          /\ servoPendorong = 180
          /\ Len(cyc.acts) >= 2
          /\ Last(cyc.acts) = "motor HIGH"
          /\ cyc.acts[Len(cyc.acts) - 1] = "servoPendorong 180"
    /\ servoPendorong # 180 => motor = LOW
    /\ ~InExecute => motor = LOW

MotorInterlockWitness ==
    /\ motor = HIGH
    /\ servoPendorong = 180
    /\ execGrade = "C"
    /\ caller = "auto"
    /\ servoC = 55

\* a command of the list
Issued(acts, c) == \E k \in 1..Len(acts) : acts[k] = c

\* C30: eksekusiGrade is called with 'A', 'B' or 'C' only, from the override
\* branch as from the end of the cycle, so its switch always takes one of
\* its three cases: when it reaches its last line the pusher has been sent
\* out and back and the motor has been switched on and off.
GradeAlwaysDispatched ==
    /\ gradePython \in Grades \cup {NUL}
    /\ grade \in Grades \cup {NUL}
    /\ InExecute =>
          /\ execGrade \in Grades
          /\ caller \in {"override", "auto"}
          /\ caller = "override" => execGrade = cyc.override
          /\ caller = "auto" => execGrade = grade
          /\ cyc.execs = <<execGrade>>
    /\ pc = "E73" =>
          /\ Issued(cyc.acts, "servoPendorong 45")
          /\ Issued(cyc.acts, "servoPendorong 180")
          /\ Issued(cyc.acts, "motor HIGH")
          /\ Issued(cyc.acts, "motor LOW")

GradeAlwaysDispatchedWitness ==
    /\ pc = "E73"
    /\ caller = "override"
    /\ execGrade = "C"
    /\ cyc.rejected > 0
    /\ Issued(cyc.acts, "servoPendorong 45")
    /\ Issued(cyc.acts, "motor HIGH")

====
